---- MODULE Spec2Model ----
(***************************************************************************)
(* Resilient fetch orchestration of moff-tarkin: the proxy rotation pool   *)
(* (utils/antidetect.py), the fetch strategy cascade and the batch runner  *)
(* (scrapers/base_scraper.py) and the dedup/cache store                    *)
(* (storage/database.py).                                                  *)
(*                                                                         *)
(* The specifications share the module's variables; each one moves its    *)
(* own group of variables and leaves the others at their initial values:   *)
(*   SpecPool         concurrent callers of ProxyRotator                   *)
(*   Spec             one BaseScraper serving fetch calls in sequence      *)
(*   SpecAged         the same with time passing between the calls         *)
(*   SpecBatch        BaseScraper.batch_scrape over a list of URLs         *)
(*   SpecBatchLive    the same under the fairness of the event loop        *)
(*   SpecBatchCancel  the same with cancellation of the awaiting task      *)
(*   SpecStore        SQLiteStorage's processed_urls and cache tables      *)
(*   SpecManager      StorageManager saving the pipeline's scenes          *)
(*   SpecCaptcha      the solve methods of CaptchaSolver                   *)
(*   SpecUniversal    UniversalScriptScraper.scrape choosing a scraper     *)
(*   SpecLLM          LLM.fw_basic_call returning the answer payload       *)
(***************************************************************************)
EXTENDS Integers, Sequences, FiniteSets, TLC

\* ---------------------------------------------------------------- bounds
MaxProxies == 3      \* configured proxy candidates (distinct addresses)
MaxCalls == 2        \* fetch calls made on a scraper with at most one proxy
MaxProxiedCalls == 1 \* fetch calls made on a scraper with several proxies
MaxUrls == 3         \* URLs in one batch
MaxConcurrent == 2   \* largest max_concurrent given to batch_scrape
MaxTime == 48        \* hours of store time explored
TickHours == 12      \* hours between two store operations
MaxScenesPerScript == 2 \* scenes the extractor finds in one script
MaxContentLen == 4   \* pieces of text in one model response

\* ------------------------------------------------------- program constants
max_retries == 5         \* attempts of the TLS-client strategy
stop_after_attempt == 3  \* attempts of the plain-HTTP strategy (tenacity)
expiry_hours == 24       \* default lifetime of a cache row

\* ------------------------------------------------------------- value sets
None == "<None>"
Unbound == "<unbound>"
IndexError == "<IndexError>"

AllProxies == <<"p1", "p2", "p3", "p4">>
Urls == {"a", "b"}
Methods == {"GET", "POST"}
Callers == {1, 2}
BatchUrls == <<"a", "b", "c", "d", "e">>

VARIABLES
  \* ProxyRotator
  proxies, working_proxies, failed_proxies, current_index,
  \* callers of the pool (SpecPool)
  ppc, lastRet, markedSince, passOpen, since, markedInFlight, checked,
  \* BaseScraper and the fetch call in progress (Spec)
  use_browser, session_cache, failed_urls, success_count, fail_count,
  tls_session_proxy, fpc, url, method, attempt, proxy, hattempt,
  result, raised, started, on403, entry, yielded, proxy_called,
  open_sessions, calls, lastReq, clock, cached_at, hits,
  \* batch_scrape (SpecBatch)
  urls, max_concurrent, sem, tpc, out, ret, completion, bpc, valid_results,
  batch_raised,
  \* SQLiteStorage (SpecStore)
  processed_urls, cache, now, lastOp, lastRead, written,
  \* the scenes table and the extraction pipeline (SpecManager)
  scenes, scenes_extracted, handled,
  \* CaptchaSolver (SpecCaptcha)
  twocaptcha, anticaptcha_key, cpc, ckind, service, page_url, consulted,
  token, solve_raised,
  \* UniversalScriptScraper.scrape (SpecUniversal)
  site_url, upc, next_scraper, called, scrape_result,
  \* LLM.fw_basic_call (SpecLLM)
  stream, message_content, reasoning_content, lpc, returned

poolVars == <<proxies, working_proxies, failed_proxies, current_index>>
callerVars == <<ppc, lastRet, markedSince, passOpen, since, markedInFlight,
                checked>>
fetchVars == <<use_browser, session_cache, failed_urls, success_count,
               fail_count, tls_session_proxy, fpc, url, method, attempt,
               proxy, hattempt, result, raised, started, on403, entry,
               yielded, proxy_called, open_sessions, calls, lastReq, clock,
               cached_at, hits>>
batchVars == <<urls, max_concurrent, sem, tpc, out, ret, completion, bpc,
               valid_results, batch_raised>>
sceneVars == <<scenes, scenes_extracted, handled>>
storeVars == <<processed_urls, cache, now, lastOp, lastRead, written,
               sceneVars>>
captchaVars == <<twocaptcha, anticaptcha_key, cpc, ckind, service, page_url,
                 consulted, token, solve_raised>>
uniVars == <<site_url, upc, next_scraper, called, scrape_result>>
llmVars == <<stream, message_content, reasoning_content, lpc, returned>>
appVars == <<uniVars, llmVars>>
vars == <<poolVars, callerVars, fetchVars, batchVars, storeVars, captchaVars,
          appVars>>

\* --------------------------------------------------------------- helpers
ToSet(s) == {s[i] : i \in 1..Len(s)}

\* what a strategy can hand back: Python's None, the empty string, or the
\* page that the strategy s retrieved for (u, m)
Nothing == <<"None">>
Empty == <<"">>
Page(s, u, m) == <<s, u, m>>

\* Python truthiness of an Optional[str]
Truthy(v) == v # Nothing /\ v # Empty

\* the configurations of distinct proxy addresses, in configuration order
ProxyConfigs == {SubSeq(AllProxies, 1, n) : n \in 0..MaxProxies}

\* ------------------------------------------------------------ ProxyRotator
\* test_proxies: gather returns the checks' results in the order of
\* self.proxies; healthy is the set of candidates whose check returned 200
TestProxiesResultReversed(config, healthy) ==
  LET w == SelectSeq(config, LAMBDA p : p \in healthy)
  IN [i \in 1..Len(w) |-> w[Len(w) + 1 - i]]

TestProxiesResult(config, healthy) ==
  SelectSeq(config, LAMBDA p : p \in healthy)

\* the orders in which the checks of the candidates in S can complete
Orderings(S) ==
  {o \in [1..Cardinality(S) -> S] :
     \A i, j \in 1..Cardinality(S) : i # j => o[i] # o[j]}

\* list.remove(proxy): drops the first occurrence
RemoveKeep(work, p) == work

Remove(work, p) ==
  IF p \notin ToSet(work) THEN work
  ELSE LET i == CHOOSE k \in 1..Len(work) :
                  work[k] = p /\ \A j \in 1..(k-1) : work[j] # p
       IN SubSeq(work, 1, i-1) \o SubSeq(work, i+1, Len(work))

\* mark_failed
MarkFailedSkipped(work, p) == work

MarkFailedWorking(work, p) == Remove(work, p)

\* get_proxy after the emptiness checks: index, advance, return
Pick(work, idx) ==
  IF work = <<>> THEN [ret |-> None, idx |-> idx]
  ELSE IF idx < Len(work)
       THEN [ret |-> work[idx + 1], idx |-> (idx + 1) % Len(work)]
       ELSE [ret |-> IndexError, idx |-> idx]

\* get_proxy run without interleaving: the outcomes of one call, one per
\* result of the health-check pass it may run
GetProxyOutcomes(config, work, idx) ==
  LET cands == IF work = <<>>
               THEN {TestProxiesResult(config, h) : h \in SUBSET ToSet(config)}
               ELSE {work}
  IN {[work |-> w, ret |-> Pick(w, idx).ret, idx |-> Pick(w, idx).idx,
       pass |-> (work = <<>>)] : w \in cands}

\* ------------------------------------------------- initial values by group
NoRet == "<no return>"

InitPool ==
  /\ proxies \in ProxyConfigs
  /\ working_proxies = <<>>
  /\ failed_proxies = {}
  /\ current_index = 0

InitCallers ==
  /\ ppc = [c \in Callers |-> "idle"]
  /\ lastRet = NoRet
  /\ markedSince = {}
  /\ passOpen = 0
  /\ since = <<>>
  /\ markedInFlight = {}
  /\ checked = <<>>

Keys == Urls \X Methods

\* the value of cached_at for a key that has no entry
NotCached == -1

InitFetch ==
  /\ use_browser \in BOOLEAN
  /\ session_cache = [k \in Keys |-> Nothing]
  /\ failed_urls = {}
  /\ success_count = 0
  /\ fail_count = 0
  /\ tls_session_proxy = None
  /\ fpc = "idle"
  /\ url = None
  /\ method = None
  /\ attempt = 0
  /\ proxy = Unbound
  /\ hattempt = 0
  /\ result = Nothing
  /\ raised = None
  /\ started = <<>>
  /\ on403 = "no"
  /\ entry = Nothing
  /\ yielded = <<>>
  /\ proxy_called = FALSE
  /\ open_sessions = 0
  /\ calls = 0
  /\ lastReq = <<NoRet, NoRet, NoRet>>
  /\ clock = 0
  /\ cached_at = [k \in Keys |-> NotCached]
  /\ hits = 0

InitBatch ==
  /\ urls = <<>>
  /\ max_concurrent = 1
  /\ sem = 0
  /\ tpc = <<>>
  /\ out = <<>>
  /\ ret = <<>>
  /\ completion = <<>>
  /\ bpc = "idle"
  /\ valid_results = <<>>
  /\ batch_raised = FALSE

InitStore ==
  /\ processed_urls = {}
  /\ cache = {}
  /\ now = 0
  /\ lastOp = <<"init">>
  /\ lastRead = <<"None">>
  /\ written = [u \in Urls |-> Nothing]
  /\ scenes = {}
  /\ scenes_extracted = 0
  /\ handled = {}

InitCaptcha ==
  /\ twocaptcha \in BOOLEAN
  /\ anticaptcha_key \in BOOLEAN
  /\ cpc = "idle"
  /\ ckind = None
  /\ service = None
  /\ page_url = None
  /\ consulted = <<>>
  /\ token = Nothing
  /\ solve_raised = FALSE

InitUni ==
  /\ site_url = [sites |-> {}, path |-> "a"]
  /\ upc = "idle"
  /\ next_scraper = 1
  /\ called = <<>>
  /\ scrape_result = Nothing

InitLLM ==
  /\ stream = FALSE
  /\ message_content = <<>>
  /\ reasoning_content = <<>>
  /\ lpc = "idle"
  /\ returned = <<>>

\* a group that a specification does not use stays at one fixed value
RestApp == InitUni /\ InitLLM

RestCaptcha == InitCaptcha /\ twocaptcha = FALSE /\ anticaptcha_key = FALSE

RestPool ==
  /\ proxies = <<>> /\ working_proxies = <<>>
  /\ failed_proxies = {} /\ current_index = 0

RestFetch == InitFetch /\ use_browser = FALSE

\* ------------------------------------------------ SpecPool: pool callers
\* the returns of the get_proxy calls made since the working list last
\* changed (by mark_failed or by a pass), the newest last; one more than the
\* length of the working list are kept
Returned(hist, r, work) ==
  LET h == Append(hist, r)
  IN IF Len(h) <= Len(work) + 1 THEN h
     ELSE SubSeq(h, Len(h) - Len(work), Len(h))

\* get_proxy up to its suspension point: with an empty working list the
\* caller awaits test_proxies, otherwise it indexes and returns at once
PoolGetProxy(c) ==
  /\ ppc[c] = "idle"
  /\ IF working_proxies = <<>>
     THEN /\ ppc' = [ppc EXCEPT ![c] = "testing"]
          /\ passOpen' = passOpen + 1
          /\ lastRet' = NoRet
          /\ markedInFlight' = {}
          /\ UNCHANGED <<current_index, markedSince, since>>
     ELSE /\ lastRet' = Pick(working_proxies, current_index).ret
          /\ current_index' = Pick(working_proxies, current_index).idx
          /\ since' = Returned(since, lastRet', working_proxies)
          /\ UNCHANGED <<ppc, passOpen, markedSince, markedInFlight>>
  /\ checked' = <<>>
  /\ UNCHANGED <<proxies, working_proxies, failed_proxies>>

\* the gather of test_proxies completes: the working list is replaced and
\* the awaiting get_proxy goes on to its second emptiness check; checked
\* holds, until the next call on the rotator, the candidates whose check
\* succeeded in the order in which their checks completed
PoolTestComplete(c) ==
  /\ ppc[c] = "testing"
  /\ \E healthy \in SUBSET ToSet(proxies) :
       LET w == TestProxiesResult(proxies, healthy)
       IN /\ working_proxies' = w
          /\ checked' \in Orderings(healthy)
          /\ lastRet' = Pick(w, current_index).ret
          /\ current_index' = Pick(w, current_index).idx
          /\ since' = <<>>
  /\ ppc' = [ppc EXCEPT ![c] = "idle"]
  /\ passOpen' = passOpen - 1
  /\ markedSince' = {}
  /\ markedInFlight' = IF passOpen = 1 THEN {} ELSE markedInFlight
  /\ UNCHANGED <<proxies, failed_proxies>>

PoolMarkFailed(p) ==
  /\ p \in ToSet(proxies)
  /\ failed_proxies' = failed_proxies \cup {p}
  /\ working_proxies' = MarkFailedWorking(working_proxies, p)
  /\ markedSince' = markedSince \cup {p}
  /\ lastRet' = NoRet
  /\ since' = <<>>
  /\ markedInFlight' = IF passOpen > 0 THEN markedInFlight \cup {p}
                       ELSE markedInFlight
  /\ checked' = <<>>
  /\ UNCHANGED <<proxies, current_index, ppc, passOpen>>

NextPool ==
  /\ \/ \E c \in Callers : PoolGetProxy(c)
     \/ \E c \in Callers : PoolTestComplete(c)
     \/ \E p \in ToSet(AllProxies) : PoolMarkFailed(p)
  /\ UNCHANGED <<fetchVars, batchVars, storeVars, captchaVars,
                 appVars>>

PoolInit ==
  InitPool /\ InitCallers /\ RestFetch /\ InitBatch /\ InitStore
  /\ RestCaptcha /\ RestApp

SpecPool == PoolInit /\ [][NextPool]_vars

\* C5: a proxy reported with mark_failed is out of the working rotation at
\* once and no get_proxy call returns it until a health-check pass has
\* completed after the report.
C5_MarkedProxyNotHandedOut ==
  /\ lastRet \notin markedSince
  /\ markedSince \cap ToSet(working_proxies) = {}

\* a get_proxy call returned a proxy while another one was marked failed
\* and no pass had run since
C5_Witness ==
  /\ markedSince # {}
  /\ lastRet \in ToSet(proxies)
  /\ passOpen = 0

\* markedInFlight: the proxies reported with mark_failed while a
\* health-check pass was in flight, no pass having started since the report

\* C25: a health-check pass that was in flight when a proxy was reported
\* with mark_failed does not bring the proxy back: when the pass completes,
\* the proxy is absent from the working rotation and is not the proxy that
\* the awaiting get_proxy returns.
C25_MarkFailedNotLost ==
  [][(passOpen' = passOpen - 1) =>
       /\ markedInFlight \cap ToSet(working_proxies') = {}
       /\ lastRet' \notin markedInFlight]_vars

\* C26 as stated: in the state that the completion of a health-check pass
\* leaves (checked is non-empty until the next call on the rotator), the
\* working rotation lists the candidates whose check succeeded in the order
\* in which their checks completed.
C26_WorkingInCompletionOrder ==
  (checked # <<>>) => working_proxies = checked

\* C26 amended: in the state that the completion of a health-check pass
\* leaves, the working rotation contains exactly the configured candidates
\* whose check succeeded, each once, listed in configuration order whatever
\* the order in which the checks completed.
C26_WorkingInConfigurationOrder ==
  (checked # <<>>) =>
    /\ ToSet(working_proxies) = ToSet(checked)
    /\ Len(working_proxies) = Len(checked)
    /\ \A i, j \in 1..Len(working_proxies) :
         (i < j) => \E a, b \in 1..Len(proxies) :
                      /\ a < b
                      /\ proxies[a] = working_proxies[i]
                      /\ proxies[b] = working_proxies[j]

\* a pass in which the check of a later candidate completed first left the
\* working rotation in configuration order
C26_Witness ==
  /\ Len(checked) >= 2
  /\ checked[1] = proxies[Len(proxies)]
  /\ working_proxies = TestProxiesResult(proxies, ToSet(checked))
  /\ working_proxies # checked
  /\ markedSince = {}
  /\ lastRet = working_proxies[1]

\* C33: whenever the working rotation is non-empty, the rotation index is a
\* valid position of it: 0 <= current_index < len(working_proxies).
C33_IndexInRange ==
  (working_proxies # <<>>) =>
    (0 <= current_index /\ current_index < Len(working_proxies))

\* C35: at most one health-check pass is in progress at any time; callers
\* that find the working rotation empty while a pass runs start no second
\* pass.
C35_SinglePass == passOpen <= 1

\* C36: the working rotation and the failed set are disjoint, and every
\* member of the working rotation is a configured proxy.
C36_SingleHealthState ==
  /\ ToSet(working_proxies) \cap failed_proxies = {}
  /\ ToSet(working_proxies) \subseteq ToSet(proxies)

\* the position of p in the working list and the proxy that follows it in
\* the rotation
IndexOf(work, p) == CHOOSE i \in 1..Len(work) : work[i] = p

Successor(work, p) == work[(IndexOf(work, p) % Len(work)) + 1]

\* C12: consecutive get_proxy calls with no mark_failed and no pass in
\* between walk the working list in order, one proxy per call, and come back
\* to the first after the last: each return is a working proxy and is the
\* successor in the rotation of the return before it.
C12_RoundRobin ==
  \A i \in 1..Len(since) :
    /\ since[i] \in ToSet(working_proxies)
    /\ (i < Len(since)) => since[i + 1] = Successor(working_proxies, since[i])

\* ------------------------------------------ Spec: BaseScraper.fetch calls
\* cache_key: the md5 digest of "url:method", one key per (url, method)
CacheKey(u, m) == <<u, m>>

\* `if cache_key in self.session_cache`
AlwaysMiss(c, k) == FALSE

InCache(c, k) == c[k] # Nothing

\* `if self.use_browser:`
BrowserEnabledAlways(flag) == TRUE

BrowserEnabled(flag) == flag

\* the order of the cascade in fetch: what follows a strategy that gave
\* no usable content
AfterStrategySkipping(s, browser) ==
  CASE s = "tls" -> IF BrowserEnabled(browser) THEN "browser" ELSE "httpx"
    [] s = "bypass" -> "httpx"
    [] s = "browser" -> "bypass"
    [] s = "httpx" -> "done"

AfterStrategy(s, browser) ==
  CASE s = "tls" -> "bypass"
    [] s = "bypass" -> IF BrowserEnabled(browser) THEN "browser" ELSE "httpx"
    [] s = "browser" -> "httpx"
    [] s = "httpx" -> "done"

\* `if content:` in fetch
Usable(content) == Truthy(content)

\* proxy = await self.proxy_rotator.get_proxy() if self.proxy_rotator else None
ProxyAcquisitions ==
  IF proxies = <<>>
  THEN {[work |-> working_proxies, ret |-> None, idx |-> current_index,
         pass |-> FALSE, called |-> FALSE]}
  ELSE {[work |-> g.work, ret |-> g.ret, idx |-> g.idx, pass |-> g.pass,
         called |-> TRUE] :
          g \in GetProxyOutcomes(proxies, working_proxies, current_index)}

Acquire(g) ==
  /\ current_index' = g.idx
  /\ proxy_called' = (proxy_called \/ g.called)
  /\ UNCHANGED proxies

\* a strategy of the cascade runs: started lists the strategies this call
\* has invoked, in the order of their first attempt
Start(s) ==
  started' = IF started # <<>> /\ started[Len(started)] = s THEN started
             ELSE Append(started, s)

\* self.session_cache[cache_key] = content
PopulateSkipped(c, k, content) == c

Populate(c, k, content) == [c EXCEPT ![k] = content]

\* a strategy hands `content` back to fetch (lines 57-83)
Return(s, content) ==
  /\ yielded' = IF content # Nothing THEN Append(yielded, <<s, content>>)
                ELSE yielded
  /\ IF Usable(content)
     THEN /\ session_cache' =
               Populate(session_cache, CacheKey(url, method), content)
          /\ cached_at' = [cached_at EXCEPT ![CacheKey(url, method)] = clock]
          /\ result' = content
          /\ fpc' = "done"
          /\ UNCHANGED failed_urls
     ELSE /\ fpc' = AfterStrategy(s, use_browser)
          /\ failed_urls' = IF s = "httpx" THEN failed_urls \cup {url}
                            ELSE failed_urls
          /\ UNCHANGED <<session_cache, cached_at, result>>
  /\ UNCHANGED raised

\* an exception leaves fetch
Raise(exc) ==
  /\ fpc' = "done"
  /\ raised' = exc
  /\ UNCHANGED <<session_cache, cached_at, result, failed_urls, yielded>>

\* the number of fetch calls explored on the scraper
CallBudget == IF Len(proxies) > 1 THEN MaxProxiedCalls ELSE MaxCalls

FetchStart(u, m) ==
  /\ fpc \in {"idle", "done"}
  /\ calls < CallBudget
  /\ calls' = calls + 1
  /\ url' = u /\ method' = m
  /\ entry' = session_cache[CacheKey(u, m)]
  /\ attempt' = 0 /\ hattempt' = 0 /\ proxy' = Unbound
  /\ raised' = None /\ started' = <<>> /\ on403' = "no"
  /\ yielded' = <<>> /\ proxy_called' = FALSE
  /\ lastReq' = <<NoRet, NoRet, NoRet>>
  /\ IF InCache(session_cache, CacheKey(u, m))
     THEN /\ result' = session_cache[CacheKey(u, m)]
          /\ fpc' = "done"
          /\ hits' = hits + 1
     ELSE /\ result' = Nothing
          /\ fpc' = "tls"
          /\ UNCHANGED hits
  /\ UNCHANGED <<use_browser, session_cache, cached_at, failed_urls,
                 success_count, fail_count, tls_session_proxy, open_sessions,
                 clock, poolVars>>

\* the bodies a 200 response of strategy s can carry for the current call
Bodies(s) == {Empty, Page(s, url, method)}

TlsResponses ==
  {[kind |-> "200", body |-> b] : b \in Bodies("tls")}
  \cup {[kind |-> k, body |-> Nothing] : k \in {"403", "other", "exc"}}

\* does this iteration of `for attempt in range(max_retries)` leave
\* _fetch_tls_client (kind is the response status, or "exc")
TlsNeverLeaves403(kind, n) == kind = "200" \/ n + 1 >= max_retries

TlsLeaves(kind, n) == kind \in {"200", "403"} \/ n + 1 >= max_retries

\* which ends of an attempt reach the except handler, where the proxy is
\* reported with mark_failed: an exception does, a response of any status
\* does not
ProxyFaultOr403(kind) == kind \in {"exc", "403"}

ProxyFault(kind) == kind = "exc"

\* one iteration of the loop in _fetch_tls_client; `attempt` and `proxy`
\* are locals of the strategy and end with it
TlsAttempt ==
  /\ fpc = "tls"
  /\ \E g \in ProxyAcquisitions, o \in TlsResponses :
       LET kind == IF g.ret = IndexError THEN "exc" ELSE o.kind
           \* the proxy the except handler reads
           seen == IF g.ret = IndexError THEN proxy ELSE g.ret
           marks == ProxyFault(kind) /\ seen \notin {None, Unbound}
           unbound == g.ret = IndexError /\ proxy = Unbound
           leaves == unbound \/ TlsLeaves(kind, attempt)
       IN /\ Acquire(g)
          /\ Start("tls")
          /\ on403' = IF kind # "403" THEN on403
                      ELSE IF attempt = 0 THEN "first" ELSE "retry"
          /\ tls_session_proxy' =
               IF g.ret \notin {None, IndexError} THEN g.ret
               ELSE tls_session_proxy
          /\ lastReq' = IF g.ret = IndexError THEN <<IndexError, NoRet, kind>>
                        ELSE <<g.ret, tls_session_proxy', kind>>
          /\ success_count' =
               IF kind = "200" THEN success_count + 1 ELSE success_count
          /\ working_proxies' =
               IF marks /\ ~unbound THEN MarkFailedWorking(g.work, seen)
               ELSE g.work
          /\ failed_proxies' =
               IF marks /\ ~unbound THEN failed_proxies \cup {seen}
               ELSE failed_proxies
          /\ attempt' = IF leaves THEN 0 ELSE attempt + 1
          /\ proxy' = IF leaves THEN Unbound ELSE seen
          /\ IF unbound
             THEN \* get_proxy raised in the first iteration: the handler's
                  \* `if proxy` reads a name that was never assigned
                  Raise("UnboundLocalError")
             ELSE IF leaves
                  THEN Return("tls", IF kind = "200" THEN o.body ELSE Nothing)
                  ELSE UNCHANGED <<fpc, session_cache, cached_at, result,
                                   failed_urls, yielded, raised>>
  /\ UNCHANGED <<use_browser, fail_count, url, method, hattempt, entry,
                 open_sessions, calls, clock, hits>>

\* _fetch_cloudscraper: bypass_cloudflare gives a dict with the page or None
Bypass ==
  /\ fpc = "bypass"
  /\ \E g \in ProxyAcquisitions, c \in Bodies("bypass") \cup {Nothing} :
       /\ Acquire(g)
       /\ working_proxies' = g.work
       /\ lastReq' = <<g.ret, IF g.ret = IndexError THEN NoRet ELSE g.ret,
                       NoRet>>
       /\ LET content == IF g.ret = IndexError THEN Nothing ELSE c
          IN /\ Start("bypass")
             /\ success_count' =
                  IF content # Nothing THEN success_count + 1 ELSE success_count
             /\ Return("bypass", content)
  /\ UNCHANGED <<use_browser, fail_count, tls_session_proxy, url, method,
                 attempt, proxy, hattempt, entry, open_sessions, calls, clock,
                 hits, failed_proxies, on403>>

\* the steps of _fetch_browser at which an exception can be raised;
\* "none" is the run without an exception
BrowserSteps ==
  {"get_proxy", "chrome", "inject", "navigate", "behave", "captcha", "none"}

\* uc.Chrome(...) has returned: a live browser session exists
SessionCreated(failAt) == failAt \notin {"get_proxy", "chrome"}

\* `driver` of _fetch_browser is assigned only when
\* create_undetected_chrome returns, after _inject_stealth_js
DriverBound(failAt) == failAt \notin {"get_proxy", "chrome", "inject"}

\* what _detect_captcha and _solve_page_captcha can come to on the rendered
\* page: no challenge indicator in it; a challenge that the solver answered
\* with a token; a challenge for which the solver returned None; a challenge
\* during whose solving an exception was raised (and caught at line 253)
ChallengeOutcomes == {"absent", "solved", "unsolved", "raised"}

Unresolved(ch) == ch \in {"unsolved", "raised"}

\* the challenge page that the browser rendered for (u, m)
ChallengePage(u, m) == <<"challenge", u, m>>

\* content = driver.page_source after the captcha check: the page is still
\* the challenge page when the challenge was not resolved
PageSource(ch, page, u, m) ==
  IF Unresolved(ch) THEN ChallengePage(u, m) ELSE page

\* _fetch_browser: the session, the human-like steps, the captcha check,
\* page_source, driver.quit()
Browser ==
  /\ fpc = "browser"
  /\ \E g \in ProxyAcquisitions, failAt \in BrowserSteps,
        page \in Bodies("browser"), ch \in ChallengeOutcomes :
       /\ (failAt = "get_proxy") <=> (g.ret = IndexError)
       /\ Acquire(g)
       /\ working_proxies' = g.work
       /\ lastReq' = <<g.ret, IF SessionCreated(failAt) THEN g.ret ELSE NoRet,
                       IF failAt = "none" /\ Unresolved(ch) THEN "unresolved"
                       ELSE NoRet>>
       /\ open_sessions' =
            IF SessionCreated(failAt) /\ ~DriverBound(failAt)
            THEN open_sessions + 1 ELSE open_sessions
       /\ IF failAt = "none"
          THEN /\ Start("browser")
               /\ success_count' = success_count + 1
               /\ Return("browser", PageSource(ch, page, url, method))
          ELSE /\ Start("browser")
               /\ UNCHANGED success_count
               /\ Return("browser", Nothing)
  /\ UNCHANGED <<use_browser, fail_count, tls_session_proxy, url, method,
                 attempt, proxy, hattempt, entry, calls, clock, hits,
                 failed_proxies, on403>>

\* what one request of _fetch_httpx can end with: a 200 with its body, a
\* success status other than 200 (201, 204, ...), a status outside 2xx, or
\* a transport error or timeout
HttpxResponses ==
  {[kind |-> "200", body |-> b] : b \in Bodies("httpx")}
  \cup {[kind |-> k, body |-> Nothing] : k \in {"2xx", "other", "exc"}}

\* @retry(stop=stop_after_attempt(3)): the attempt that failed was the last
RetryStops(n) == n + 1 >= stop_after_attempt

\* one attempt of _fetch_httpx under the tenacity decorator; when the
\* decorator stops retrying it raises RetryError (reraise is not set)
HttpxAttempt ==
  /\ fpc = "httpx"
  /\ \E g \in ProxyAcquisitions, o \in HttpxResponses :
       /\ Acquire(g)
       /\ working_proxies' = g.work
       /\ LET kind == IF g.ret = IndexError THEN "IndexError" ELSE o.kind
          IN /\ Start("httpx")
             /\ lastReq' = <<g.ret,
                             IF g.ret = IndexError THEN NoRet ELSE g.ret, kind>>
             /\ IF kind = "200"
                THEN /\ success_count' = success_count + 1
                     /\ hattempt' = 0
                     /\ Return("httpx", o.body)
                ELSE /\ UNCHANGED success_count
                     /\ IF RetryStops(hattempt)
                        THEN hattempt' = 0 /\ Raise("RetryError")
                        ELSE /\ hattempt' = hattempt + 1
                             /\ UNCHANGED <<fpc, session_cache, cached_at,
                                            result, failed_urls, yielded,
                                            raised>>
  /\ UNCHANGED <<use_browser, fail_count, tls_session_proxy, url, method,
                 attempt, proxy, entry, open_sessions, calls, clock, hits,
                 failed_proxies, on403>>

\* _load_proxies: the providers of PROXY_CONFIG that are set
ScraperConfigs == {<<>>, <<"p1">>, <<"p1", "p2">>}

InitScraper ==
  /\ proxies \in ScraperConfigs
  /\ working_proxies = <<>>
  /\ failed_proxies = {}
  /\ current_index = 0

Init ==
  InitScraper /\ InitCallers /\ InitFetch /\ InitBatch /\ InitStore
  /\ RestCaptcha /\ RestApp

Next ==
  /\ \/ \E u \in Urls, m \in Methods : FetchStart(u, m)
     \/ TlsAttempt
     \/ Bypass
     \/ Browser
     \/ HttpxAttempt
  /\ UNCHANGED <<callerVars, batchVars, storeVars, captchaVars,
                 appVars>>

Spec == Init /\ [][Next]_vars

\* ------------------------------------------------------- claims on fetch
\* C1: a fetch call on which every strategy failed returns None without
\* raising, and its URL is in failed_urls afterwards.
C1_ExhaustedReturnsNone ==
  (fpc = "done" /\ entry = Nothing /\ yielded = <<>>) =>
    (raised = None /\ result = Nothing /\ url \in failed_urls)

\* C2: a fetch call that finds its (url, method) in the cache returns the
\* cached body, starts no strategy and acquires no proxy.
C2_CacheHitServedWithoutNetwork ==
  (fpc # "idle" /\ entry # Nothing) =>
    /\ fpc = "done"
    /\ result = entry
    /\ raised = None
    /\ started = <<>>
    /\ ~proxy_called

\* a call on a scraper with a proxy rotator was served from the cache
C2_Witness ==
  /\ fpc = "done"
  /\ entry # Nothing
  /\ result = entry
  /\ proxies # <<>>

\* C3: once a strategy has handed a body to fetch, the call is over with
\* that body as its result and no later strategy has been invoked.
C3_FirstBodyEndsCascade ==
  (yielded # <<>>) =>
    /\ fpc = "done"
    /\ Len(yielded) = 1
    /\ result = yielded[1][2]
    /\ started[Len(started)] = yielded[1][1]

\* C4: after a 403 in the TLS-client strategy no further attempt of that
\* strategy is made in the call, and the strategy that follows it is the
\* challenge bypass.
C4_403EndsTlsStrategy ==
  (on403 # "no") =>
    /\ fpc # "tls"
    /\ started[1] = "tls"
    /\ IF Len(started) = 1 THEN fpc = "bypass" ELSE started[2] = "bypass"

\* a 403 answered a later attempt of the TLS strategy and the bypass ran next
C4_Witness ==
  /\ on403 = "retry"
  /\ Len(started) >= 2
  /\ started[2] = "bypass"

\* C9: no browser session is left open when _fetch_browser has returned.
C9_BrowserSessionsClosed == open_sessions = 0

\* lastReq: what the last get_proxy call of a strategy returned (IndexError
\* if it raised) and the proxy through which the request that followed was
\* sent (NoRet if none was sent); for an attempt of the TLS-client or of the
\* plain-HTTP strategy also how the attempt ended (the status class, "exc",
\* or "IndexError" when get_proxy raised before the request), and for a run
\* of the browser strategy "unresolved" when it went through to page_source
\* with a challenge on the page that was not resolved

\* C11: when get_proxy has returned none for a request (after at most the
\* one health-check pass of that call), the strategy sends the request
\* without a proxy.
C11_NoneMeansProxyless ==
  (lastReq[1] = None) => (lastReq[2] = None)

\* C34: every request of the TLS-client strategy is sent through exactly
\* the proxy that get_proxy returned for that attempt: with none returned
\* the request goes out without a proxy, and a proxy handed out for an
\* earlier attempt or an earlier call is not reused.
C34_TlsRequestUsesReturnedProxy ==
  [][(fpc = "tls" /\ lastReq'[1] # IndexError) =>
       lastReq'[2] = lastReq'[1]]_vars

\* C19: no get_proxy call made by a strategy raises, whatever was marked
\* failed before it.
C19_GetProxyNeverRaises == lastReq[1] # IndexError

\* C20: every step of the TLS-client strategy is one attempt, numbered below
\* max_retries; the attempt numbered max_retries - 1 is the last one; when
\* the strategy ends without a 200 it hands fetch no body and the bypass is
\* next; and after an attempt that failed with an exception on a request
\* sent through a proxy, that proxy is in failed_proxies and out of the
\* working list.
C20_TlsAttemptsBoundedAndReported ==
  [][(fpc = "tls") =>
       /\ attempt < max_retries
       /\ (fpc' = "tls") => (attempt' = attempt + 1 /\ attempt' < max_retries)
       /\ (fpc' # "tls" /\ lastReq'[3] # "200" /\ raised' = None) =>
            (fpc' = "bypass" /\ yielded' = yielded /\ result' = Nothing)
       /\ (lastReq'[3] = "exc" /\ lastReq'[2] \notin {None, NoRet}) =>
            /\ lastReq'[2] \in failed_proxies'
            /\ lastReq'[2] \notin ToSet(working_proxies')]_vars

\* the fifth attempt failed with an exception on a request through a proxy
\* and the strategy ended without a body
C20_Witness ==
  /\ fpc = "bypass"
  /\ started = <<"tls">>
  /\ on403 = "no"
  /\ yielded = <<>>
  /\ lastReq[3] = "exc"
  /\ lastReq[2] \in failed_proxies

\* C21: every step of the plain-HTTP strategy is one attempt, numbered below
\* stop_after_attempt; an attempt answered with a 2xx status ends the
\* strategy and hands its body to fetch; any other attempt (a status outside
\* 2xx, a transport error, a timeout) is followed by one more attempt while
\* fewer than stop_after_attempt have been made, and ends the strategy
\* otherwise.
C21_HttpxAttemptsBounded ==
  [][(fpc = "httpx") =>
       /\ hattempt < stop_after_attempt
       /\ IF lastReq'[3] \in {"200", "2xx"}
          THEN /\ fpc' # "httpx"
               /\ Len(yielded') = Len(yielded) + 1
               /\ yielded'[Len(yielded')][1] = "httpx"
          ELSE IF hattempt + 1 < stop_after_attempt
               THEN fpc' = "httpx" /\ hattempt' = hattempt + 1
               ELSE fpc' # "httpx"]_vars

\* C22: when a fetch call returns a body that a strategy retrieved, the
\* cache holds that body under the call's (url, method); an entry of the
\* cache is never changed or removed afterwards; and a later call for a key
\* that has an entry returns that entry at once, starting no strategy and
\* touching neither the proxy pool nor the network.
C22_CachePopulatedOnSuccess ==
  [][/\ (fpc' = "done" /\ entry' = Nothing /\ result' # Nothing) =>
          session_cache'[CacheKey(url', method')] = result'
     /\ \A k \in Keys :
          (session_cache[k] # Nothing) => session_cache'[k] = session_cache[k]
     /\ (calls' = calls + 1 /\ session_cache[CacheKey(url', method')] # Nothing)
          => /\ fpc' = "done"
             /\ result' = session_cache[CacheKey(url', method')]
             /\ raised' = None
             /\ started' = <<>>
             /\ ~proxy_called'
             /\ lastReq' = <<NoRet, NoRet, NoRet>>
             /\ UNCHANGED poolVars]_vars

\* the second call for a key got the page that the browser strategy had
\* retrieved in the first
C22_Witness ==
  /\ calls = 2
  /\ fpc = "done"
  /\ started = <<>>
  /\ result = Page("browser", url, method)
  /\ session_cache[CacheKey(url, method)] = result

\* C24: when the browser strategy has detected a challenge and the solver
\* gave no token (or raised), the fetch call does not raise, the strategy
\* hands fetch no body, and the plain-HTTP strategy is next.
C24_UnresolvedChallengeIsSoftFailure ==
  [][(fpc = "browser" /\ lastReq'[3] = "unresolved") =>
       /\ raised' = None
       /\ yielded' = yielded
       /\ result' = Nothing
       /\ fpc' = "httpx"]_vars

\* hits: the number of fetch calls served from the cache; a body that a
\* call returns from a strategy is stored under a key that had no entry, so
\* the entries of the cache count the calls that returned such a body

\* C29: between two fetch calls success_count is the number of calls that
\* returned a body retrieved by a strategy, and success_count + fail_count
\* is the number of calls that were not served from the cache.
C29_CountersAccountForCalls ==
  (fpc \in {"idle", "done"}) =>
    /\ success_count = Cardinality({k \in Keys : session_cache[k] # Nothing})
    /\ success_count + fail_count = calls - hits

\* C30: an attempt of the TLS-client strategy that is answered with a 403
\* reports no proxy: the failed set is as before the attempt, the working
\* rotation is as get_proxy left it (unchanged when it was not empty), and
\* the proxy that get_proxy returned for the attempt is still in it.
C30_403MarksNoProxy ==
  [][(fpc = "tls" /\ lastReq'[3] = "403") =>
       /\ failed_proxies' = failed_proxies
       /\ (working_proxies # <<>>) => working_proxies' = working_proxies
       /\ (lastReq'[1] # None) => lastReq'[1] \in ToSet(working_proxies')]_vars

\* a request sent through a proxy was answered with a 403; the proxy is
\* still in the rotation and the bypass is next
C30_Witness ==
  /\ fpc = "bypass"
  /\ started = <<"tls">>
  /\ lastReq[3] = "403"
  /\ lastReq[1] \in ToSet(proxies)
  /\ lastReq[1] \in ToSet(working_proxies)
  /\ lastReq[1] \notin failed_proxies

\* the strategies of the cascade in the order of the spec
CascadeOrder(browser) ==
  IF browser THEN <<"tls", "bypass", "browser", "httpx">>
  ELSE <<"tls", "bypass", "httpx">>

IsPrefix(p, q) == Len(p) <= Len(q) /\ p = SubSeq(q, 1, Len(p))

Strategies == {"tls", "bypass", "browser", "httpx"}

C18_BrowserOnlyOnOptIn ==
  (~use_browser) =>
    /\ fpc # "browser"
    /\ \A i \in 1..Len(started) : started[i] # "browser"
    /\ open_sessions = 0
    /\ (Len(started) >= 2 /\ fpc \in Strategies) => fpc = "httpx"
    /\ (Len(started) >= 3) => started[3] = "httpx"

\* without the browser the bypass gave nothing and plain HTTP ran next
C18_Witness ==
  /\ ~use_browser
  /\ started = <<"tls", "bypass", "httpx">>

\* ------------------------------- SpecAged: fetch calls with time passing
\* the hours since the scraper was built advance between two fetch calls;
\* cached_at keeps, for each cache key, the hour at which fetch stored its
\* entry
Elapse ==
  /\ fpc \in {"idle", "done"}
  /\ clock + TickHours <= MaxTime
  /\ clock' = clock + TickHours
  /\ UNCHANGED <<use_browser, session_cache, failed_urls, success_count,
                 fail_count, tls_session_proxy, fpc, url, method, attempt,
                 proxy, hattempt, result, raised, started, on403, entry,
                 yielded, proxy_called, open_sessions, calls, lastReq,
                 cached_at, hits, poolVars>>

NextAged ==
  /\ \/ \E u \in Urls, m \in Methods : FetchStart(u, m)
     \/ TlsAttempt
     \/ Bypass
     \/ Browser
     \/ HttpxAttempt
     \/ Elapse
  /\ UNCHANGED <<callerVars, batchVars, storeVars, captchaVars,
                 appVars>>

\* a scraper for which no proxy is configured
AgedInit ==
  RestPool /\ InitCallers /\ InitFetch /\ InitBatch /\ InitStore
  /\ RestCaptcha /\ RestApp

SpecAged == AgedInit /\ [][NextAged]_vars

\* the entry of key k is past its expiry time: expiry_hours or more have
\* passed since fetch stored it
Expired(k) ==
  session_cache[k] # Nothing /\ clock >= cached_at[k] + expiry_hours

\* C23: a fetch call for a key whose cache entry is past its expiry time
\* treats the entry as absent: it is not served from the cache and the
\* cascade starts with the TLS-client strategy.
C23_FetchCacheHonoursExpiry ==
  [][(calls' = calls + 1 /\ Expired(CacheKey(url', method'))) =>
       (fpc' = "tls" /\ result' = Nothing)]_vars

\* --------------------------------------------- SpecBatch: batch_scrape
\* what the abstract scrape(url) can do: return a result dict, return
\* None, or raise
ScrapeOutcomes == {"ok", "none", "raised"}

NoResult == <<"None">>
Exception == <<"exception">>
Result(u) == <<"result", u>>

\* scrape_with_semaphore: the value its task ends with (try / except
\* Exception / return None)
TaskResultUncaught(o, u) ==
  IF o = "ok" THEN Result(u) ELSE IF o = "none" THEN NoResult ELSE Exception

TaskResult(o, u) == IF o = "ok" THEN Result(u) ELSE NoResult

\* `async with semaphore`: the acquire goes through while the value is
\* positive
SemFreeAlways(v) == TRUE

SemFree(v) == v > 0

\* leaving the `async with semaphore` block releases the slot, whether
\* scrape returned or raised (o is the outcome of the scrape)
ReleasedUnlessRaised(v, o) == IF o = "raised" THEN v ELSE v + 1

Released(v, o) == v + 1

\* asyncio.gather(*tasks): one entry per task, in the order of the tasks
GatherInCompletionOrder(r, comp) == [i \in 1..Len(r) |-> r[comp[i]]]

Gather(r, comp) == [i \in 1..Len(r) |-> r[i]]

\* valid_results = [r for r in results if r is not None]
ValidResults(results) == SelectSeq(results, LAMBDA r : r # NoResult)

InitBatchRun ==
  /\ urls \in {SubSeq(BatchUrls, 1, n) : n \in 0..MaxUrls}
  /\ max_concurrent \in 0..MaxConcurrent
  /\ sem = 0
  /\ tpc = <<>>
  /\ out = <<>>
  /\ ret = <<>>
  /\ completion = <<>>
  /\ bpc = "idle"
  /\ valid_results = <<>>
  /\ batch_raised = FALSE

\* batch_scrape up to the gather: the semaphore and one task per URL
BatchStart ==
  /\ bpc = "idle"
  /\ bpc' = "gathering"
  /\ sem' = max_concurrent
  /\ tpc' = [i \in 1..Len(urls) |-> "waiting"]
  /\ out' = [i \in 1..Len(urls) |-> "pending"]
  /\ ret' = [i \in 1..Len(urls) |-> NoResult]
  /\ UNCHANGED <<urls, max_concurrent, completion, valid_results,
                 batch_raised>>

\* task i passes the semaphore and enters scrape
Admit(i) ==
  /\ bpc = "gathering"
  /\ tpc[i] = "waiting"
  /\ SemFree(sem)
  /\ sem' = sem - 1
  /\ tpc' = [tpc EXCEPT ![i] = "running"]
  /\ UNCHANGED <<urls, max_concurrent, out, ret, completion, bpc,
                 valid_results, batch_raised>>

\* scrape of task i ends; the task leaves the `async with` block
Finish(i, o) ==
  /\ bpc = "gathering"
  /\ tpc[i] = "running"
  /\ out' = [out EXCEPT ![i] = o]
  /\ ret' = [ret EXCEPT ![i] = TaskResult(o, urls[i])]
  /\ sem' = Released(sem, o)
  /\ tpc' = [tpc EXCEPT ![i] = "done"]
  /\ completion' = Append(completion, i)
  /\ UNCHANGED <<urls, max_concurrent, bpc, valid_results, batch_raised>>

\* the gather returns and batch_scrape filters and returns
BatchReturn ==
  /\ bpc = "gathering"
  /\ \A i \in 1..Len(urls) : tpc[i] = "done"
  /\ LET results == Gather(ret, completion)
     IN IF \E i \in 1..Len(urls) : results[i] = Exception
        THEN batch_raised' = TRUE /\ valid_results' = <<>>
        ELSE batch_raised' = FALSE /\ valid_results' = ValidResults(results)
  /\ bpc' = "done"
  /\ UNCHANGED <<urls, max_concurrent, sem, tpc, out, ret, completion>>

NextBatch ==
  /\ \/ BatchStart
     \/ \E i \in 1..Len(urls) : Admit(i)
     \/ \E i \in 1..Len(urls), o \in ScrapeOutcomes : Finish(i, o)
     \/ BatchReturn
  /\ UNCHANGED <<poolVars, callerVars, fetchVars, storeVars, captchaVars,
                 appVars>>

BatchInit ==
  RestPool /\ InitCallers /\ RestFetch /\ InitBatchRun /\ InitStore
  /\ RestCaptcha /\ RestApp

SpecBatch == BatchInit /\ [][NextBatch]_vars

\* the event loop runs every task that can run: batch_scrape itself, a
\* task waiting at a semaphore that has a free slot, and a scrape call in
\* progress, which terminates by returning or by raising
BatchFrame ==
  UNCHANGED <<poolVars, callerVars, fetchVars, storeVars, captchaVars,
                 appVars>>

BatchFairness ==
  /\ WF_vars(BatchStart /\ BatchFrame)
  /\ WF_vars(BatchReturn /\ BatchFrame)
  /\ \A i \in 1..(MaxUrls + 1) :
       /\ WF_vars(i \in 1..Len(urls) /\ Admit(i) /\ BatchFrame)
       /\ WF_vars(/\ i \in 1..Len(urls)
                  /\ \E o \in ScrapeOutcomes : Finish(i, o)
                  /\ BatchFrame)

SpecBatchLive == BatchInit /\ [][NextBatch]_vars /\ BatchFairness

Running == {i \in 1..Len(tpc) : tpc[i] = "running"}

\* C6: the number of scrapes admitted and not yet finished never exceeds
\* max_concurrent.
C6_ConcurrencyBound == Cardinality(Running) <= max_concurrent

\* the gate is full while a URL of a longer list is still waiting
C6_Witness ==
  /\ max_concurrent >= 1
  /\ Len(urls) > max_concurrent
  /\ Cardinality(Running) = max_concurrent
  /\ \E i \in 1..Len(tpc) : tpc[i] = "waiting"

Pos(u) == CHOOSE i \in 1..Len(urls) : urls[i] = u

C8_BatchIsolation ==
  (bpc = "done") =>
    /\ ~batch_raised
    /\ \A i \in 1..Len(urls) :
         /\ tpc[i] = "done"
         /\ ret[i] = IF out[i] = "ok" THEN Result(urls[i]) ELSE NoResult
         /\ (out[i] = "ok") => \E k \in 1..Len(valid_results) :
                                  valid_results[k] = Result(urls[i])

\* a batch in which the first scrape to end raised and a sibling succeeded
C8_Witness ==
  /\ bpc = "done"
  /\ \E i, j \in 1..Len(urls) :
       /\ out[i] = "raised" /\ completion[1] = i
       /\ out[j] = "ok" /\ Result(urls[j]) \in ToSet(valid_results)

\* C27: with max_concurrent >= 1 every task that waits at the gate is
\* eventually admitted, and batch_scrape eventually returns with every slot
\* of the gate released, whether the scrape calls returned or raised.
C27_BatchAdmissionLive ==
  (max_concurrent >= 1) =>
    /\ <>(bpc = "done" /\ sem = max_concurrent)
    /\ \A i \in 1..(MaxUrls + 1) :
         (i \in 1..Len(tpc) /\ tpc[i] = "waiting")
           ~> (i \in 1..Len(tpc) /\ tpc[i] # "waiting")

\* a batch of three URLs through a gate of one slot has returned, one of
\* its scrape calls having raised, and the slot is free again
C27_Witness ==
  /\ bpc = "done"
  /\ max_concurrent = 1
  /\ Len(urls) = 3
  /\ \E i \in 1..Len(urls) : out[i] = "raised"
  /\ sem = max_concurrent

\* C37: batch_scrape called with a non-empty URL list and max_concurrent = 0
\* does not block for ever: the call eventually ends.
C37_ZeroConcurrencyEnds ==
  (max_concurrent = 0 /\ Len(urls) > 0) => <>(bpc = "done")

\* ------------------------------- SpecBatchCancel: a batch that is cancelled
\* the task that awaits batch_scrape is cancelled from outside while the
\* gather is pending: gather cancels every child that has not completed, so
\* a task waiting at the gate ends without having started its scrape
\* ("cancelled") and CancelledError is raised inside a scrape in progress
\* ("interrupted"); it is not an Exception, so line 278 does not catch it,
\* and leaving the `async with` block releases the slot
Cancel ==
  /\ bpc = "gathering"
  /\ bpc' = "cancelled"
  /\ tpc' = [i \in 1..Len(tpc) |->
               IF tpc[i] = "waiting" THEN "cancelled"
               ELSE IF tpc[i] = "running" THEN "interrupted" ELSE tpc[i]]
  /\ out' = [i \in 1..Len(out) |->
               IF tpc[i] = "running" THEN "cancelled" ELSE out[i]]
  /\ sem' = sem + Cardinality(Running)
  /\ UNCHANGED <<urls, max_concurrent, ret, completion, valid_results,
                 batch_raised>>

NextBatchCancel ==
  \/ NextBatch
  \/ Cancel /\ BatchFrame

SpecBatchCancel == BatchInit /\ [][NextBatchCancel]_vars

\* C28: after a cancellation of the batch every scrape that was in flight
\* has ended with an outcome of its own (it returned or raised by itself);
\* only tasks that had not started are ended by the cancellation.
C28_InFlightSurviveCancellation ==
  (bpc = "cancelled") =>
    \A i \in 1..Len(tpc) :
      /\ tpc[i] \in {"done", "cancelled"}
      /\ (tpc[i] = "done") => out[i] \in ScrapeOutcomes

\* ------------------------------------------- SpecStore: SQLiteStorage
\* the tables are sets of rows; url is the primary key of both
\* the body that a request (u, m) retrieved, and the bodies callers store
ResponseBody(u, m) == <<"body", u, m>>

StoreContents == {ResponseBody(u, m) : u \in Urls, m \in Methods}

HasRow(table, u) == \E r \in table : r.url = u

\* INSERT OR REPLACE: a row with the same primary key is replaced
InsertOrReplace(table, row) ==
  {r \in table : r.url # row.url} \cup {row}

\* INSERT OR IGNORE: a row with the same primary key wins over the new one
InsertOverwriting(table, row) ==
  {r \in table : r.url # row.url} \cup {row}

InsertOrIgnore(table, row) ==
  IF HasRow(table, row.url) THEN table ELSE table \cup {row}

\* SELECT 1 FROM processed_urls WHERE url = ?
IsProcessed(table, u) == HasRow(table, u)

\* SELECT content FROM cache WHERE url = ? AND expiry > datetime('now')
CachedContentAtExpiry(table, u, t) ==
  IF \E r \in table : r.url = u /\ r.expiry >= t
  THEN (CHOOSE r \in table : r.url = u /\ r.expiry >= t).content
  ELSE <<"None">>

CachedContent(table, u, t) ==
  IF \E r \in table : r.url = u /\ r.expiry > t
  THEN (CHOOSE r \in table : r.url = u /\ r.expiry > t).content
  ELSE <<"None">>

\* DELETE FROM cache WHERE expiry <= datetime('now')
WithoutExpiredBefore(table, t) == {r \in table : ~(r.expiry < t)}

WithoutExpired(table, t) == {r \in table : ~(r.expiry <= t)}

mark_processed(u) ==
  /\ processed_urls' =
       InsertOrIgnore(processed_urls, [url |-> u, processed_at |-> now])
  /\ lastOp' = <<"mark_processed", u, IsProcessed(processed_urls, u)>>
  /\ UNCHANGED <<cache, now, lastRead, written>>

is_processed(u) ==
  /\ lastRead' = <<IsProcessed(processed_urls, u)>>
  /\ lastOp' = <<"is_processed", u>>
  /\ UNCHANGED <<processed_urls, cache, now, written>>

cache_response(u, content) ==
  /\ cache' = InsertOrReplace(cache, [url |-> u, content |-> content,
                                       expiry |-> now + expiry_hours])
  /\ lastOp' = <<"cache_response", u>>
  /\ written' = [written EXCEPT ![u] = <<content, now>>]
  /\ UNCHANGED <<processed_urls, now, lastRead>>

\* the store is consulted for a request (u, m): the method is not part of
\* the call
get_cached_response(u, m) ==
  /\ lastRead' = <<CachedContent(cache, u, now)>>
  /\ lastOp' = <<"get_cached_response", <<u, m>>>>
  /\ UNCHANGED <<processed_urls, cache, now, written>>

cleanup_expired_cache ==
  /\ cache' = WithoutExpired(cache, now)
  /\ lastOp' = <<"cleanup_expired_cache">>
  /\ UNCHANGED <<processed_urls, now, lastRead, written>>

\* time passes between two calls
Tick ==
  /\ now + TickHours <= MaxTime
  /\ now' = now + TickHours
  /\ lastOp' = <<"tick">>
  /\ UNCHANGED <<processed_urls, cache, lastRead, written>>

NextStore ==
  /\ \/ \E u \in Urls : mark_processed(u)
     \/ \E u \in Urls : is_processed(u)
     \/ \E u \in Urls, m \in Methods : cache_response(u, ResponseBody(u, m))
     \/ \E u \in Urls, m \in Methods : get_cached_response(u, m)
     \/ cleanup_expired_cache
     \/ Tick
  /\ UNCHANGED <<poolVars, callerVars, fetchVars, batchVars, captchaVars,
                 sceneVars,
                 appVars>>

StoreInit ==
  RestPool /\ InitCallers /\ RestFetch /\ InitBatch /\ InitStore
  /\ RestCaptcha /\ RestApp

SpecStore == StoreInit /\ [][NextStore]_vars

\* C10: mark_processed of a URL that is already marked (the call has no
\* precondition and cannot fail on the existing row) keeps is_processed(url)
\* true and leaves the processed_urls table as the first call made it.
C10_MarkProcessedIdempotent ==
  [][\A u \in Urls :
       (lastOp' = <<"mark_processed", u, TRUE>>) =>
         /\ processed_urls' = processed_urls
         /\ IsProcessed(processed_urls', u)]_vars

\* a URL was marked again at a later time than its first mark
C10_Witness ==
  /\ Len(lastOp) = 3
  /\ lastOp[1] = "mark_processed"
  /\ lastOp[3] = TRUE
  /\ \E r \in processed_urls : r.url = lastOp[2] /\ r.processed_at < now

\* C13 (durable store): what get_cached_response hands to a request (u, m)
\* is a body that was stored for that URL and that method.
C13_StoreSeparatesMethods ==
  (lastOp[1] = "get_cached_response" /\ lastRead # <<<<"None">>>>) =>
    lastRead = <<ResponseBody(lastOp[2][1], lastOp[2][2])>>

\* the content last given to cache_response for u if its expiry timestamp
\* (the time of the call plus expiry_hours) is later than t, else none
StoredAndFresh(u, t) ==
  IF written[u] # Nothing /\ written[u][2] + expiry_hours > t
  THEN written[u][1] ELSE <<"None">>

\* C14: get_cached_response(url) returns the content last stored for url
\* exactly when its expiry timestamp is later than the current time, whether
\* or not cleanup_expired_cache has run, and the read leaves the cache table
\* as it was.
C14_ReadTimeExpiry ==
  [][(lastOp'[1] = "get_cached_response") =>
       /\ lastRead' = <<StoredAndFresh(lastOp'[2][1], now)>>
       /\ cache' = cache]_vars

\* a read at the very expiry time of a row that no cleanup has removed found
\* nothing
C14_Witness ==
  /\ lastOp[1] = "get_cached_response"
  /\ lastRead = <<<<"None">>>>
  /\ \E r \in cache : r.url = lastOp[2][1] /\ r.expiry = now

\* C31: cleanup_expired_cache removes exactly the cache rows whose expiry is
\* at or before the current time and leaves every other row and the
\* processed-URL table as they were; no other store operation removes a
\* cache row, cache_response replacing only the row of its own URL.
C31_SweepExplicitAndPrecise ==
  [][/\ (lastOp' = <<"cleanup_expired_cache">>) =>
          /\ cache' = {r \in cache : r.expiry > now}
          /\ processed_urls' = processed_urls
     /\ (lastOp' # <<"cleanup_expired_cache">>) =>
          \A r \in cache :
            \/ r \in cache'
            \/ /\ lastOp' = <<"cache_response", r.url>>
               /\ HasRow(cache', r.url)]_vars

\* a sweep removed the row of a URL whose expiry time had just been reached
\* and kept a row that expires later, with a URL marked processed
C31_Witness ==
  /\ lastOp = <<"cleanup_expired_cache">>
  /\ \E u \in Urls :
       /\ written[u] # Nothing
       /\ written[u][2] + expiry_hours = now
       /\ ~HasRow(cache, u)
  /\ \E r \in cache : r.expiry > now
  /\ processed_urls # {}

\* ----------------------- SpecManager: StorageManager under the pipeline
\* one run of ExtractionPipeline.extract_character_scenes for one character
\* of one show: the scripts are identified by their URL, the title of a
\* script gives its season and episode, and the extractor finds up to
\* MaxScenesPerScript scenes of the character in a script
Show == "show"

Character == "character"

EpisodeOf(u) == IF u = "a" THEN <<1, 1>> ELSE <<1, 2>>

\* all_scenes: the scenes of script a, then those of script b
ExtractedScenes ==
  [i \in 1..(2 * MaxScenesPerScript) |->
     [url |-> IF i <= MaxScenesPerScript THEN "a" ELSE "b",
      n |-> ((i - 1) % MaxScenesPerScript) + 1]]

\* Scene._generate_id: the digest of show, season, episode, scene_number
\* and character, one id per combination of the five
GenerateId(show, season, episode, scene_number, character) ==
  <<show, season, episode, scene_number, character>>

\* _create_scene_object: scene_id is left empty and generated, scene_number
\* is None
CreateSceneObject(data) ==
  LET lines == <<"dialogue", data.url, data.n>>
  IN [scene_id |-> GenerateId(Show, EpisodeOf(data.url)[1],
                              EpisodeOf(data.url)[2], None, Character),
      source_url |-> data.url,
      dialogue |-> lines]

\* INSERT OR REPLACE INTO scenes: scene_id is the primary key
InsertOrReplaceScene(table, row) ==
  {r \in table : r.scene_id # row.scene_id} \cup {row}

\* StorageManager.save_scene: `if success:` guards mark_processed
MarksProcessedAlways(success) == TRUE

MarksProcessed(success) == success

\* one iteration of the saving loop of the pipeline, which goes through
\* all_scenes in order (handled holds the scenes done): save_scene of the
\* manager (the insert of SQLiteStorage.save_scene either commits or raises
\* and is reported as False), then the counter
PipelineSave(data, success) ==
  /\ Cardinality(handled) < Len(ExtractedScenes)
  /\ data = ExtractedScenes[Cardinality(handled) + 1]
  /\ LET scene == CreateSceneObject(data)
     IN /\ scenes' = IF success THEN InsertOrReplaceScene(scenes, scene)
                     ELSE scenes
        /\ processed_urls' =
             IF MarksProcessed(success)
             THEN InsertOrIgnore(processed_urls,
                                 [url |-> scene.source_url,
                                  processed_at |-> now])
             ELSE processed_urls
        /\ lastOp' = <<"save_scene", scene.source_url, success>>
  /\ scenes_extracted' =
       IF success THEN scenes_extracted + 1 ELSE scenes_extracted
  /\ handled' = handled \cup {data}
  /\ UNCHANGED <<cache, now, lastRead, written>>

\* the run is short against expiry_hours: no time passes in it
NextManager ==
  \/ /\ \E data \in ToSet(ExtractedScenes), success \in BOOLEAN :
          PipelineSave(data, success)
     /\ UNCHANGED <<poolVars, callerVars, fetchVars, batchVars, captchaVars,
                 appVars>>
  \/ /\ \/ \E u \in Urls : mark_processed(u)
        \/ \E u \in Urls : is_processed(u)
        \/ \E u \in Urls, m \in Methods :
             cache_response(u, ResponseBody(u, m))
        \/ \E u \in Urls, m \in Methods : get_cached_response(u, m)
        \/ cleanup_expired_cache
     /\ UNCHANGED <<poolVars, callerVars, fetchVars, batchVars, captchaVars,
                    sceneVars,
                 appVars>>

ManagerInit ==
  RestPool /\ InitCallers /\ RestFetch /\ InitBatch /\ InitStore
  /\ RestCaptcha /\ RestApp

SpecManager == ManagerInit /\ [][NextManager]_vars

\* C38: save_scene of the manager marks the scene's source URL processed
\* if and only if the scene save succeeded; is_duplicate(url) is what the
\* processed_urls table says, it becomes true only by a successful save of
\* a scene of that URL or by mark_processed(url), and once true it stays
\* true under every store operation.
C38_DedupFollowsPersistence ==
  [][/\ \A u \in Urls :
          /\ (lastOp' = <<"save_scene", u, TRUE>>) =>
               IsProcessed(processed_urls', u)
          /\ (lastOp' = <<"save_scene", u, FALSE>>) =>
               processed_urls' = processed_urls
          /\ (lastOp' = <<"is_processed", u>>) =>
               lastRead' = <<IsProcessed(processed_urls, u)>>
          /\ IsProcessed(processed_urls, u) =>
               IsProcessed(processed_urls', u)
          /\ (~IsProcessed(processed_urls, u)
                /\ IsProcessed(processed_urls', u)) =>
               \/ lastOp' = <<"save_scene", u, TRUE>>
               \/ lastOp' = <<"mark_processed", u, FALSE>>]_vars

\* a save failed for a scene of one script and left its URL unmarked, a
\* save succeeded for a scene of the other, whose URL is a duplicate since
\* and was reported so by the last call
C38_Witness ==
  /\ \E d \in handled :
       /\ ~IsProcessed(processed_urls, d.url)
       /\ \A r \in scenes : r.source_url # d.url
  /\ \E r \in scenes : IsProcessed(processed_urls, r.source_url)
  /\ lastOp[1] = "is_processed"
  /\ lastRead = <<TRUE>>
  /\ scenes_extracted = 1

\* C39: every successful save_scene of the pipeline adds a stored scene
\* without replacing a different scene stored before, so the number of
\* stored scenes equals the scenes_extracted counter.
C39_NoSceneLost == Cardinality(scenes) = scenes_extracted

\* ------------------------------------------- SpecCaptcha: CaptchaSolver
ChallengeKinds ==
  {"recaptcha_v2", "recaptcha_v3", "hcaptcha", "turnstile", "image"}

\* the `service` argument of solve_recaptcha_v2
ServiceModes == {"auto", "2captcha", "anticaptcha"}

\* what a solving service can do when asked: 2captcha hands back a dict
\* with the token or raises; AntiCaptcha hands back the token, or 0, or
\* raises (also when its library is not installed)
ServiceOutcomes(svc) ==
  IF svc = "2captcha" THEN {"token", "raise"} ELSE {"token", "zero", "raise"}

Token(svc, u) == <<"token", svc, u>>

\* the services a solve method goes through, in the order of its code, for
\* a solver with the given configuration
ServiceOrder(kind, mode, two, anti) ==
  LET t == IF two THEN <<"2captcha">> ELSE <<>>
      a == IF anti THEN <<"anticaptcha">> ELSE <<>>
  IN CASE kind = "recaptcha_v2" ->
            IF mode = "2captcha" /\ two THEN <<"2captcha">>
            ELSE IF mode = "anticaptcha" /\ anti THEN <<"anticaptcha">>
            ELSE t \o a
       [] kind = "hcaptcha" -> a \o t
       [] OTHER -> t

\* every call to a service sits inside try / except Exception of the solve
\* method: does the service's exception leave the method
EscapesWhenRaised(kind, svc, outcome) == outcome = "raise"

Escapes(kind, svc, outcome) == FALSE

\* what the method holds after the call: the token, or nothing
Obtained(svc, outcome, u) ==
  IF outcome = "token" THEN Token(svc, u) ELSE Nothing

\* `if result: return result`, and the end of the method after the last
\* configured service
SolveEndsAtLast(v, more) == ~more

SolveEnds(v, more) == Truthy(v) \/ ~more

\* a solve method is called
SolveStart(kind, mode, u) ==
  /\ cpc \in {"idle", "done"}
  /\ ckind' = kind /\ service' = mode /\ page_url' = u
  /\ consulted' = <<>>
  /\ token' = Nothing
  /\ solve_raised' = FALSE
  /\ cpc' = IF ServiceOrder(kind, mode, twocaptcha, anticaptcha_key) = <<>>
            THEN "done" ELSE "solving"
  /\ UNCHANGED <<twocaptcha, anticaptcha_key>>

\* the round trip to the next service of the method
Consult(outcome) ==
  /\ cpc = "solving"
  /\ LET order == ServiceOrder(ckind, service, twocaptcha, anticaptcha_key)
         svc == order[Len(consulted) + 1]
         v == Obtained(svc, outcome, page_url)
         more == Len(consulted) + 1 < Len(order)
     IN /\ outcome \in ServiceOutcomes(svc)
        /\ consulted' = Append(consulted, <<svc, outcome>>)
        /\ IF Escapes(ckind, svc, outcome)
           THEN /\ solve_raised' = TRUE
                /\ cpc' = "done"
                /\ UNCHANGED token
           ELSE /\ UNCHANGED solve_raised
                /\ IF SolveEnds(v, more)
                   THEN cpc' = "done" /\ token' = v
                   ELSE cpc' = "solving" /\ UNCHANGED token
  /\ UNCHANGED <<twocaptcha, anticaptcha_key, ckind, service, page_url>>

NextCaptcha ==
  /\ \/ \E k \in ChallengeKinds, u \in Urls :
          \E m \in (IF k = "recaptcha_v2" THEN ServiceModes ELSE {"auto"}) :
            SolveStart(k, m, u)
     \/ \E o \in {"token", "zero", "raise"} : Consult(o)
  /\ UNCHANGED <<poolVars, callerVars, fetchVars, batchVars, storeVars,
                 appVars>>

CaptchaInit ==
  RestPool /\ InitCallers /\ RestFetch /\ InitBatch /\ InitStore
  /\ InitCaptcha /\ RestApp

SpecCaptcha == CaptchaInit /\ [][NextCaptcha]_vars

ProducedToken(i) == consulted[i][2] = "token"

\* C15: a solve call of any challenge kind never raises, and when no service
\* is configured or none of the services it asked produced a token it
\* returns none.
C15_SolveFailsSoftly ==
  /\ ~solve_raised
  /\ (cpc = "done" /\ \A i \in 1..Len(consulted) : ~ProducedToken(i)) =>
       token = Nothing

\* both services are configured, one raised and the other failed, and the
\* call returned none
C15_Witness ==
  /\ cpc = "done"
  /\ Len(consulted) = 2
  /\ \E i \in 1..2 : consulted[i][2] = "raise"
  /\ \A i \in 1..2 : ~ProducedToken(i)
  /\ token = Nothing

\* the preference order of the two methods that ask more than one service
Preference(kind) ==
  IF kind = "hcaptcha" THEN <<"anticaptcha", "2captcha">>
  ELSE <<"2captcha", "anticaptcha">>

Configured(svc) == IF svc = "2captcha" THEN twocaptcha ELSE anticaptcha_key

\* C16: in solve_recaptcha_v2 (default mode) and solve_hcaptcha a service is
\* asked only if it is configured and every configured service before it in
\* the method's preference order was asked and produced no token; the call
\* returns the first token produced.
C16_PreferenceOrder ==
  (cpc # "idle" /\ ckind \in {"recaptcha_v2", "hcaptcha"} /\ service = "auto") =>
    LET pref == Preference(ckind)
    IN /\ \A i \in 1..Len(consulted) :
            /\ Configured(consulted[i][1])
            /\ \A j \in 1..(i - 1) : ~ProducedToken(j)
            /\ \A q \in 1..Len(pref) :
                 (q < IndexOf(pref, consulted[i][1]) /\ Configured(pref[q])) =>
                   \E j \in 1..(i - 1) : consulted[j][1] = pref[q]
       /\ (cpc = "done") =>
            \/ \E i \in 1..Len(consulted) :
                 ProducedToken(i) /\ token = Token(consulted[i][1], page_url)
            \/ /\ token = Nothing
               /\ \A i \in 1..Len(consulted) : ~ProducedToken(i)
               /\ \A q \in 1..Len(pref) :
                    Configured(pref[q]) =>
                      \E j \in 1..Len(consulted) : consulted[j][1] = pref[q]

\* the first service produced nothing and the second one's token was
\* returned
C16_Witness ==
  /\ cpc = "done"
  /\ service = "auto"
  /\ Len(consulted) = 2
  /\ ~ProducedToken(1)
  /\ token = Token(consulted[2][1], page_url)

\* --------------------------- SpecUniversal: UniversalScriptScraper.scrape
\* self.scrapers, in list order, by the name each scraper is built with
Scrapers == <<"springfield", "8flix", "subslikescript">>

\* the literals of the dispatch condition
Domains == {"springfield", "8flix", "subslike"}

\* a URL is the set of those substrings it contains that the dispatch looks
\* for, and a path; "subslike" is a substring of "subslikescript"
Markers == ToSet(Scrapers) \cup Domains

SiteUrls ==
  {[sites |-> S, path |-> p] :
     S \in {T \in SUBSET Markers :
              ("subslikescript" \in T) => ("subslike" \in T)},
     p \in Urls}

\* `sub in url`
Contains(u, sub) == sub \in u.sites

\* the condition of the first loop for one scraper
Dispatches(name, u) ==
  Contains(u, name) \/ \E domain \in Domains : Contains(u, domain)

\* scraper.scrape(url) of a site scraper: a dict, None, or an exception
\* that fetch let through
SiteScrapeOutcomes == {"result", "none", "raised"}

SiteResult(name, u) == <<"result", name, u.path>>

UniScrape(u) ==
  /\ upc \in {"idle", "done", "raised"}
  /\ site_url' = u
  /\ upc' = "dispatch"
  /\ next_scraper' = 1
  /\ called' = <<>>
  /\ scrape_result' = Nothing

\* the first loop: the first scraper of the list for which the condition
\* holds scrapes the URL and its result is returned as it is
Dispatch ==
  /\ upc = "dispatch"
  /\ LET matching == {i \in 1..Len(Scrapers) :
                       Dispatches(Scrapers[i], site_url)}
     IN IF matching # {}
        THEN LET i == CHOOSE j \in matching : \A k \in matching : j <= k
             IN \E o \in SiteScrapeOutcomes :
                  /\ called' = <<Scrapers[i]>>
                  /\ scrape_result' =
                       IF o = "result" THEN SiteResult(Scrapers[i], site_url)
                       ELSE Nothing
                  /\ upc' = IF o = "raised" THEN "raised" ELSE "done"
                  /\ UNCHANGED next_scraper
        ELSE /\ upc' = "fallback"
             /\ UNCHANGED <<next_scraper, called, scrape_result>>
  /\ UNCHANGED site_url

\* one iteration of the second loop
FallbackTry ==
  /\ upc = "fallback"
  /\ \E o \in SiteScrapeOutcomes :
       /\ called' = Append(called, Scrapers[next_scraper])
       /\ scrape_result' =
            IF o = "result" THEN SiteResult(Scrapers[next_scraper], site_url)
            ELSE Nothing
       /\ upc' = IF o = "raised" THEN "raised"
                 ELSE IF o = "result" \/ next_scraper = Len(Scrapers)
                      THEN "done" ELSE "fallback"
       /\ next_scraper' = IF upc' = "fallback" THEN next_scraper + 1
                          ELSE next_scraper
  /\ UNCHANGED site_url

NextUniversal ==
  /\ \/ \E u \in SiteUrls : UniScrape(u)
     \/ Dispatch
     \/ FallbackTry
  /\ UNCHANGED <<poolVars, callerVars, fetchVars, batchVars, storeVars,
                 captchaVars, llmVars>>

UniversalInit ==
  RestPool /\ InitCallers /\ RestFetch /\ InitBatch /\ InitStore
  /\ RestCaptcha /\ RestApp

SpecUniversal == UniversalInit /\ [][NextUniversal]_vars

\* the sites a URL names
Named(u) == {name \in ToSet(Scrapers) : Contains(u, name)}

\* C40: when scrape(url) has ended, a URL that names one of the three sites
\* was scraped by that site's scraper and by no other; a URL that names
\* none was given to the scrapers one after another in list order, up to
\* the first that returned a result.
C40_DelegatesToNamedScraper ==
  (upc \in {"done", "raised"}) =>
    /\ \A name \in ToSet(Scrapers) :
         (Named(site_url) = {name}) => called = <<name>>
    /\ (Named(site_url) = {}) =>
         /\ called = SubSeq(Scrapers, 1, Len(called))
         /\ (upc = "done" /\ scrape_result = Nothing) =>
              Len(called) = Len(Scrapers)

\* ------------------------------------------ SpecLLM: LLM.fw_basic_call
\* the text of a response is a sequence of pieces: the two tags, reasoning
\* text, answer text and line breaks
Pieces == {"<think>", "</think>", "reasoning", "answer", "\n"}

Texts == UNION {[1..n -> Pieces] : n \in 0..MaxContentLen}

\* the separate reasoning channel: message.reasoning_content, or the
\* reasoning_content deltas of a stream, joined; empty when none came
ReasoningChannels == {<<>>, <<"reasoning">>}

\* `sub in text` and text.find(sub)
In(sub, text) == \E i \in 1..Len(text) : text[i] = sub

Find(text, sub) ==
  IF In(sub, text)
  THEN CHOOSE i \in 1..Len(text) :
         text[i] = sub /\ \A j \in 1..(i - 1) : text[j] # sub
  ELSE -1

\* text.lstrip("\n")
RECURSIVE LStrip(_)
LStrip(text) ==
  IF text # <<>> /\ text[1] = "\n" THEN LStrip(Tail(text)) ELSE text

\* text[end_idx + len("</think>"):].lstrip("\n")
AfterBlock(text) ==
  LStrip(SubSeq(text, Find(text, "</think>") + 1, Len(text)))

\* the fallback that parses the block out of the text: it runs only when
\* no reasoning came on the separate channel
FallbackRuns(reasoning, text) ==
  reasoning = <<>> /\ In("<think>", text) /\ In("</think>", text)

\* the non-streaming branch: message.content, after the fallback
VisibleContent(text, reasoning) ==
  IF FallbackRuns(reasoning, text) THEN AfterBlock(text) ELSE text

\* the streaming branch: "".join(final_text_chunks), after the fallback
CombinedVisible(text, reasoning) ==
  IF FallbackRuns(reasoning, text) THEN AfterBlock(text) ELSE text

\* a call whose request was answered with a 200 and one choice
InitLLMRun ==
  /\ stream \in BOOLEAN
  /\ message_content \in Texts
  /\ reasoning_content \in ReasoningChannels
  /\ lpc = "call"
  /\ returned = <<>>

fw_basic_call ==
  /\ lpc = "call"
  /\ returned' = IF stream
                 THEN CombinedVisible(message_content, reasoning_content)
                 ELSE VisibleContent(message_content, reasoning_content)
  /\ lpc' = "returned"
  /\ UNCHANGED <<stream, message_content, reasoning_content>>

NextLLM ==
  /\ fw_basic_call
  /\ UNCHANGED <<poolVars, callerVars, fetchVars, batchVars, storeVars,
                 captchaVars, uniVars>>

LLMInit ==
  RestPool /\ InitCallers /\ RestFetch /\ InitBatch /\ InitStore
  /\ RestCaptcha /\ InitUni /\ InitLLMRun

SpecLLM == LLMInit /\ [][NextLLM]_vars

\* the text holds one <think>...</think> block: one opening tag, one
\* closing tag after it, the reasoning text between them and the answer
\* text outside
OneBlock(text) ==
  /\ Cardinality({i \in 1..Len(text) : text[i] = "<think>"}) = 1
  /\ Cardinality({i \in 1..Len(text) : text[i] = "</think>"}) = 1
  /\ Find(text, "<think>") < Find(text, "</think>")
  /\ \A i \in 1..Len(text) :
       /\ (text[i] = "reasoning") =>
            (Find(text, "<think>") < i /\ i < Find(text, "</think>"))
       /\ (text[i] = "answer") =>
            (i < Find(text, "<think>") \/ Find(text, "</think>") < i)

\* C32: for a response whose text contains a <think>...</think> block, in
\* streaming and non-streaming mode and with or without a separate
\* reasoning channel, the string fw_basic_call returns contains neither tag
\* and no text from inside the block.
C32_ThinkBlockStripped ==
  (lpc = "returned" /\ OneBlock(message_content)) =>
    /\ ~In("<think>", returned)
    /\ ~In("</think>", returned)
    /\ ~In("reasoning", returned)

====
